---- MODULE Spec2Model ----
(***************************************************************************)
(* Model of the NSS -> NCS compiler core reconstructed in                   *)
(* nwnnsscomp_reverse_engineered.cpp: the compile/resolve cycle of          *)
(* nwnnsscomp_compile_core and the serializer                               *)
(* nwnnsscomp_write_bytecode_to_file.                                       *)
(***************************************************************************)
EXTENDS Integers, Sequences, FiniteSets, TLC

(* ------------------------------------------------------------------ *)
(* Bounds of the model                                                  *)
(* ------------------------------------------------------------------ *)

\* largest number of diagnostics the parser reports in one pass
MaxErrors == 2

\* largest number of bytes the serialized globals/functions/instructions take
MaxBody == 5

\* largest ordinary requiredCapacity passed to nwnnsscomp_expand_bytecode_buffer
MaxRequired == 5

\* number of addresses malloc can return for an instruction store
MaxBlocks == 3

\* largest number of InstructionBuffer operations in one run
MaxCalls == 3

\* number of distinct instruction records
MaxRecord == 2

\* largest used count of a populated buffer that is an input
MaxCount == 3

\* largest number of successive calls of expand_bytecode_buffer on an input
MaxExpands == 2

\* largest number of characters of an include path
MaxPath == 4

\* largest number of include directives of a unit
MaxIncludes == 2

\* largest number of directory entries that match the input pattern
MaxEntries == 2

(* ------------------------------------------------------------------ *)
(* Program constants                                                    *)
(* ------------------------------------------------------------------ *)

\* return-type code of a void function (cmp dword ptr [eax+0x10], 0x1)
TYPE_VOID == 1

\* return-type code of an int function (cmp dword ptr [eax+0x10], 0x6)
TYPE_INT == 6

\* length of the magic "NCS V1.0B"
MagicLen == 9

\* bytes the write cursor is advanced over the header (writePtr += 13)
HeaderLen == 13

\* byte offset at which the size is stored (bytecodeBuffer + 13)
SizePatchOffset == 13

\* the null pointer
NULL == "NULL"

\* "NCS V1.0B" in ASCII
Magic == <<78, 67, 83, 32, 86, 49, 46, 48, 66>>

\* content of a byte of the serialization region that was never written
Indeterminate == -1

\* value of one byte of the serialized body
BodyByte == 170

\* values the uninitialized local compilationResult may hold at the final return
UninitValues == {-1, 0, 1, 2, 3}

\* return-type codes found at symbol+0x10: void, int and one that is neither
ReturnTypes == {TYPE_VOID, TYPE_INT, TYPE_VOID + 2}

VARIABLES
    pc,                 \* position inside nwnnsscomp_compile_core ("idle" = in the driver)
    isIncludeFile,      \* include-file flag parameter ([ebp+0x24])
    debugMode,          \* debug mode parameter ([ebp+0x20])
    includeFlag,        \* byte at parserState+0x2ee (include processed flag)
    symbolTable,        \* functions of the unit: set of [name, returnType]
    unitBody,           \* bytes the serializer emits after the header
    g_currentCompiler,  \* global current compiler pointer
    compiler,           \* local compiler pointer of compile_core
    errorCount,         \* local errorCount of compile_core
    alreadyProcessed,   \* local alreadyProcessed of compile_core
    passErrors,         \* error counts read after each generate pass
    callLog,            \* calls made by this run of compile_core, in order
    result,             \* value returned by compile_core
    retPath,            \* which return statement was taken
    writeResult,        \* value returned by write_bytecode_to_file (-1 = not called)
    errorReports,       \* messages passed to nwnnsscomp_report_error
    findCalls,          \* names passed to nwnnsscomp_find_function
    serAllocs,          \* operator new(0x80000) calls
    serFrees,           \* operator delete(bytecodeBuffer) calls
    fopenCalls,         \* fopen calls
    fwriteCalls,        \* fwrite calls
    bytecodeSize,       \* local bytecodeSize of write_bytecode_to_file (-1 = not computed)
    patchedOffsets,     \* offsets of the region the size patch wrote to
    ioError,            \* the open failed or the write was short
    outFile,            \* the output file on disk
    sourceFrees,        \* free() calls made on the source buffer
    status,             \* branch the driver took on the result of the last file
    serFields,          \* compiler+0xec, +0xf0, +0xe8: buffer start, buffer end, write cursor
    genAllocs,          \* malloc(28) and malloc(0x9000) calls of generate_bytecode
    genFrees,           \* free() calls made on blocks generate_bytecode allocated
    includeVisits,      \* current instance before, while and after each include is processed
    destroyLog,         \* what each nwnnsscomp_destroy_compiler call of the cleanup did
    buffer,             \* header of the InstructionBuffer: store (+0x0), count (+0x4), capacity (+0x8), ...
    heap,               \* blocks malloc returned for the instruction store
    lastCall,           \* the last InstructionBuffer operation, its arguments and its result
    opLog,              \* InstructionBuffer operations made so far, in order
    unitIncludes,       \* paths of the include directives of the unit, in order
    includeRegistry,    \* the Include Registry: its entry pointer (+0x4) and the keys it holds
    createFailed,       \* creations of a compiler instance that failed in this run of compile_core
    finalized,          \* the fields of the compiler object nwnnsscomp_finalize_main_script writes
    unitCall,           \* the last direct call of an operation on a unit, its arguments and its result
    drvPc,              \* position inside nwnnsscomp_process_files ("none" = not called)
    fileSystem,         \* entries matching the pattern that the file system has not reported yet
    enumHandle,         \* local enumHandle of process_files
    fileData,           \* local fileData of process_files: the attributes and the entry it describes
    filesProcessed,     \* local filesProcessed of process_files
    g_scriptsProcessed, \* global counter of scripts processed
    g_scriptsFailed,    \* global counter of scripts failed
    fileReports,        \* what each call of compile_single_file was given, did and printed
    enumLog             \* enumeration history: opened, closes, entries seen, value returned

vars == <<pc, isIncludeFile, debugMode, includeFlag, symbolTable, unitBody,
          g_currentCompiler, compiler, errorCount, alreadyProcessed, passErrors,
          callLog, result, retPath, writeResult, errorReports, findCalls,
          serAllocs, serFrees, fopenCalls, fwriteCalls, bytecodeSize,
          patchedOffsets, ioError, outFile, sourceFrees, status,
          serFields, genAllocs, genFrees, includeVisits, destroyLog,
          buffer, heap, lastCall, opLog,
          unitIncludes, includeRegistry, createFailed, finalized, unitCall,
          drvPc, fileSystem, enumHandle, fileData, filesProcessed,
          g_scriptsProcessed, g_scriptsFailed, fileReports, enumLog>>

unitVars == <<isIncludeFile, debugMode, symbolTable, unitBody>>

writerVars == <<writeResult, errorReports, findCalls, serAllocs, serFrees,
                fopenCalls, fwriteCalls, bytecodeSize, patchedOffsets, ioError,
                outFile>>

lifeVars == <<serFields, genAllocs, genFrees, includeVisits, destroyLog>>

bufVars == <<buffer, heap, lastCall, opLog>>

opVars == <<unitIncludes, includeRegistry, createFailed, finalized, unitCall>>

driverVars == <<drvPc, fileSystem, enumHandle, fileData, filesProcessed,
                g_scriptsProcessed, g_scriptsFailed, fileReports, enumLog>>

(* ------------------------------------------------------------------ *)
(* Inputs                                                               *)
(* ------------------------------------------------------------------ *)

\* a unit declares main and StartingConditional at most once each
SymbolTables ==
    { m \cup s :
        m \in {{}} \cup { {[name |-> "main", returnType |-> t]} : t \in ReturnTypes },
        s \in {{}} \cup { {[name |-> "StartingConditional", returnType |-> t]} : t \in ReturnTypes } }

Bodies == { [i \in 1..n |-> BodyByte] : n \in 0..MaxBody }

NoFile == [exists |-> FALSE, bytes |-> <<>>]

(* ------------------------------------------------------------------ *)
(* Helpers of the serializer                                            *)
(* ------------------------------------------------------------------ *)

\* what a NULL function-symbol pointer designates
NoSymbol == [name |-> "", returnType |-> 0]

\* the symbol of the function called functionName, or NoSymbol
nwnnsscomp_find_function(table, functionName) ==
    IF \E f \in table : f.name = functionName
    THEN CHOOSE f \in table : f.name = functionName
    ELSE NoSymbol

\* names looked up by the entry-point detection, in order
EntryPointLookups(table) ==
    IF nwnnsscomp_find_function(table, "main") # NoSymbol
    THEN <<"main">>
    ELSE <<"main", "StartingConditional">>

EntryPointCheck_SkipReturnType(table) ==
    LET mainFunction == nwnnsscomp_find_function(table, "main")
        startingConditional == nwnnsscomp_find_function(table, "StartingConditional")
    IN  IF mainFunction = NoSymbol /\ startingConditional = NoSymbol
        THEN "No \"main\" or \"StartingConditional\" found"
        ELSE "ok"

\* entry point detection and validation: "ok" or the error that is reported
EntryPointCheck(table) ==
    LET mainFunction == nwnnsscomp_find_function(table, "main")
        hasMain == mainFunction # NoSymbol
        startingConditional ==
            IF hasMain THEN NoSymbol
            ELSE nwnnsscomp_find_function(table, "StartingConditional")
    IN  IF ~hasMain
        THEN IF startingConditional = NoSymbol
             THEN "No \"main\" or \"StartingConditional\" found"
             ELSE IF startingConditional.returnType # TYPE_INT
                  THEN "The \"StartingConditional\" function must return an int"
                  ELSE "ok"
        ELSE IF mainFunction.returnType # TYPE_VOID
             THEN "The \"main\" function must return a void"
             ELSE "ok"

\* the four bytes of a 32-bit unsigned value as stored by an x86 dword store
LittleEndian32(n) ==
    <<n % 256, (n \div 256) % 256, (n \div 65536) % 256, (n \div 16777216) % 256>>

\* the value of four bytes read as a little-endian integer
ReadLittleEndian32(b) ==
    b[1] + 256 * b[2] + 65536 * b[3] + 16777216 * b[4]

\* the magic and the four zero bytes of the size placeholder
WriteHeader == Magic \o <<0, 0, 0, 0>>

\* globals, function table and instruction stream, written at the cursor
SerializeUnit(written, body) == written \o body

\* the start of the freshly allocated region: what was written through the
\* cursor, followed by bytes that were never written
RegionOf(written) == written \o [i \in 1..4 |-> Indeterminate]

\* *((uint*)((char*)bytecodeBuffer + offset)) = size
StoreDword(region, offset, size) ==
    [i \in 1..Len(region) |->
        IF i - 1 \in offset..(offset + 3)
        THEN LittleEndian32(size)[i - offset]
        ELSE region[i]]

\* byte counts fwrite may report for a request of size bytes
FwriteCounts(size) == {0, size \div 2, size}

(* ------------------------------------------------------------------ *)
(* Decisions of nwnnsscomp_compile_core                                 *)
(* ------------------------------------------------------------------ *)

nwnnsscomp_is_include_processed(flagByte) == flagByte

nwnnsscomp_is_include_file(flagByte) ==
    nwnnsscomp_is_include_processed(flagByte) # 0

FirstPassBranch_ProcessedReturns2(count, isInclude, flagByte) ==
    IF count > 0
    THEN IF isInclude /\ nwnnsscomp_is_include_file(flagByte)
         THEN "return2"
         ELSE "second"
    ELSE "fallthrough"

FirstPassBranch_IncludeAlwaysReturns2(count, isInclude, flagByte) ==
    IF count > 0
    THEN IF isInclude THEN "return2" ELSE "second"
    ELSE "fallthrough"

FirstPassBranch_NoIncludeTest(count, isInclude, flagByte) ==
    IF count > 0 THEN "second" ELSE "fallthrough"

\* where compile_core goes after the first error-count check
FirstPassBranch(count, isInclude, flagByte) ==
    IF count > 0
    THEN IF isInclude /\ ~nwnnsscomp_is_include_file(flagByte)
         THEN "return2"
         ELSE "second"
    ELSE "fallthrough"

SecondPassBranch_OffByOne(count) ==
    IF count <= 1 THEN "mainclean" ELSE "rejected"

\* where compile_core goes after the second error-count check
SecondPassBranch(count) ==
    IF count <= 0 THEN "mainclean" ELSE "rejected"

\* the result compile_core returns for a result of the serializer
ResultOfWrite(written) ==
    IF written = 0 THEN 0 ELSE 1

\* the branch compile_single_file takes on the result of compile_core
DriverStatus(compilationResult) ==
    IF compilationResult = 1 THEN "compiled"
    ELSE IF compilationResult = 2 THEN "include"
    ELSE "failed"

\* blocks one call of nwnnsscomp_generate_bytecode allocates: the instruction
\* structure, malloc(28), and the bytecode store, malloc(0x9000)
GenerateAllocations == 2

(* ------------------------------------------------------------------ *)
(* Include handling of nwnnsscomp_generate_bytecode                     *)
(* ------------------------------------------------------------------ *)

\* characters of an include path: a lower-case and an upper-case letter, the
\* dot and the three characters nwnnsscomp_get_filename_from_path stops at
PathChars == {"a", "B", ".", "\\", "/", ":"}

\* if (*currentPos == '\\' || *currentPos == '/' || *currentPos == ':')
PathSeparators == {"\\", "/", ":"}

\* the null pointer where a string is expected
NullPath == <<NULL>>

\* include paths: the strings of at most MaxPath characters
IncludePaths == UNION { [1..n -> PathChars] : n \in 1..MaxPath }

\* the path of the include directives of the units that are compiled
UnitIncludePaths == { <<"/", "B", ".", "a">> }

\* the include directives a unit may hold
IncludeLists == UNION { [1..n -> UnitIncludePaths] : n \in 0..MaxIncludes }

\* the include the parser hands to generate_bytecode: the next directive of
\* the unit that it has not handed out yet, NULL when there is none
nwnnsscomp_get_next_include_file(includes, visited) ==
    IF visited < Len(includes) THEN includes[visited + 1] ELSE NullPath

\* strrchr: the index of the last occurrence of c in s, 0 for the null pointer
Strrchr(s, c) ==
    IF \E i \in 1..Len(s) : s[i] = c
    THEN CHOOSE i \in 1..Len(s) :
            s[i] = c /\ \A j \in (i + 1)..Len(s) : s[j] # c
    ELSE 0

\* the part of the path after its last '\', '/' or ':'
nwnnsscomp_get_filename_from_path(path) ==
    IF path = NullPath THEN NullPath
    ELSE LET separators == {i \in 1..Len(path) : path[i] \in PathSeparators}
             filenameStart ==
                 IF separators = {} THEN 1
                 ELSE 1 + (CHOOSE i \in separators : \A j \in separators : j <= i)
         IN  SubSeq(path, filenameStart, Len(path))

\* strlwr
Strlwr(s) == [i \in 1..Len(s) |-> IF s[i] = "B" THEN "b" ELSE s[i]]

\* what strlen and strcpy may find at the null pointer, if reading it does
\* not fault
IndeterminateStrings == { <<>>, <<".", "a">> }

\* extPtr = strrchr(filenameOnly, '.'); strcpy(includeFilename, extPtr);
\* lastDot = strrchr(includeFilename, '.'); if (lastDot != NULL) *lastDot = 0
IncludeFilename(nextInclude, garbage) ==
    LET filenameOnly == nwnnsscomp_get_filename_from_path(nextInclude)
        extPtr == Strrchr(filenameOnly, ".")
        copied == IF extPtr = 0 THEN garbage
                  ELSE SubSeq(filenameOnly, extPtr, Len(filenameOnly))
        lastDot == Strrchr(copied, ".")
    IN  IF lastDot # 0 THEN SubSeq(copied, 1, lastDot - 1) ELSE copied

\* strlen(extPtr) is applied to the null pointer
ReadsNullExtension(nextInclude) ==
    Strrchr(nwnnsscomp_get_filename_from_path(nextInclude), ".") = 0

\* values a read of the dword at +0x4 of the registry yields: no code stores it
RegistryEntries == {NULL, "entry"}

\* the registry of a compiler object on which nothing was registered
EmptyRegistry == [entry |-> NULL, keys |-> {}]

\* return *((void**)((char*)registry + 0x4))
nwnnsscomp_get_include_registry_entry(registry) == registry.entry

\* the body of nwnnsscomp_update_include_context takes the length of the path
\* and stores nothing: the registry is as before the call
nwnnsscomp_update_include_context(registry, path) ==
    [entry |-> registry.entry, keys |-> registry.keys]

\* what nwnnsscomp_update_include_context hands back to its caller: it is a
\* void function
UpdateReport == "none"

\* if (registryEntry == 0) strlwr(includeFilename)
LowercasesKey(registryEntry) == registryEntry = NULL

\* whether the include block is left before the stage that compiles the
\* include: no branch of the block depends on the registry but the one
\* around strlwr
SkipsInclude(registryEntry) == FALSE

\* one pass through the include block of generate_bytecode for the include
\* nextInclude: the file name is derived, lower-cased if the registry has no
\* entry, and handed to nwnnsscomp_update_include_context; the current
\* instance stays the one found on entry and nothing is compiled
IncludeVisit(nextInclude, current, registry, faulted, garbage) ==
    LET registryEntry == nwnnsscomp_get_include_registry_entry(registry)
        derived == IncludeFilename(nextInclude, garbage)
        lowercased == LowercasesKey(registryEntry)
        includeFilename == IF lowercased THEN Strlwr(derived) ELSE derived
        visit == [before |-> current, during |-> current, after |-> current,
                  path |-> nextInclude, derived |-> derived,
                  key |-> includeFilename, entry |-> registryEntry,
                  lowercased |-> lowercased, updates |-> 1,
                  skipped |-> SkipsInclude(registryEntry), compiled |-> FALSE,
                  registryBefore |-> registry,
                  registryAfter |->
                      nwnnsscomp_update_include_context(registry, includeFilename),
                  outcome |-> "returned"]
    IN  IF ReadsNullExtension(nextInclude) /\ faulted
        THEN [visit EXCEPT !.derived = NullPath, !.key = NullPath, !.lowercased = FALSE,
                           !.updates = 0, !.registryAfter = registry,
                           !.outcome = "fault"]
        ELSE visit

\* the instructions one pass through the include block adds to the output of
\* the enclosing unit: the compilation of the include is a comment, the block
\* calls neither the emitter nor a nested compile
IncludeEmits_NestedUnit(visit) == <<visit.key>>

IncludeEmits(visit) == <<>>

\* if (nextInclude != NULL) { ... }
ProcessInclude(visits, nextInclude, current, registry, faulted, garbage) ==
    IF nextInclude = NullPath
    THEN visits
    ELSE Append(visits, IncludeVisit(nextInclude, current, registry, faulted, garbage))

\* the registry after the include block
RegistryAfterInclude(nextInclude, current, registry, faulted, garbage) ==
    IF nextInclude = NullPath
    THEN registry
    ELSE IncludeVisit(nextInclude, current, registry, faulted, garbage).registryAfter

\* the null pointer as the result of nwnnsscomp_create_compiler
NullInstance == [null |-> TRUE, sourceBufferStart |-> NULL, debugModeEnabled |-> FALSE]

\* nwnnsscomp_create_compiler: NULL if the allocation fails; else the object
\* with its buffer pointers and debug flag, after the include path, if there
\* is one, was handed to nwnnsscomp_update_include_context
nwnnsscomp_create_compiler(registry, current, sourceBuffer, includePath, debugModeArg, allocated) ==
    IF ~allocated
    THEN [instance |-> NullInstance, registry |-> registry, current |-> current,
          updates |-> 0]
    ELSE [instance |-> [null |-> FALSE, sourceBufferStart |-> sourceBuffer,
                        debugModeEnabled |-> debugModeArg],
          registry |-> IF includePath # NullPath
                       THEN nwnnsscomp_update_include_context(registry, includePath)
                       ELSE registry,
          current |-> current,
          updates |-> IF includePath # NullPath THEN 1 ELSE 0]

\* compiler+0xec = bytecodeBuffer, compiler+0xf0 = bytecodeBuffer + 0x80000,
\* compiler+0xe8 = bytecodeBuffer, then the cursor advanced within the region
StoreRegionPointers(fields, region) ==
    [fields EXCEPT !.start = region, !.end = region, !.cursor = region]

\* the three pointer fields before the serializer ran
NoRegionPointers == [start |-> NULL, end |-> NULL, cursor |-> NULL]

Count(log, name) == Cardinality({i \in 1..Len(log) : log[i] = name})

\* sourceBufferStart of the parser state, stored by nwnnsscomp_setup_parser_state
SourceBufferStart == "sourceBuffer"

\* if (compiler->sourceBufferStart != NULL) { if (compiler->debugModeEnabled) free(...) }
DestroyFreesSource(sourceBufferStart, debugModeEnabled) ==
    sourceBufferStart # NULL /\ debugModeEnabled

\* g_currentCompiler = 0
GlobalAfterDestroy_Kept(current) == current

GlobalAfterDestroy(current) == NULL

\* what a call of destroy_compiler does when g_currentCompiler is 0
DestroyedNothing == [instance |-> NULL, sourceFreed |-> FALSE, objectFreed |-> NULL]

\* where compile_single_file continues after a call of destroy_compiler
AfterDestroy(at) == IF at = "destroy1" THEN "destroy2" ELSE "exit"


(* ------------------------------------------------------------------ *)
(* InstructionBuffer: nwnnsscomp_allocate_buffer,                       *)
(* nwnnsscomp_emit_instruction, nwnnsscomp_expand_bytecode_buffer and   *)
(* nwnnsscomp_update_buffer_size                                        *)
(* ------------------------------------------------------------------ *)

\* uint instructionSize = 0x24
InstructionSize == 36

\* bits of an unsigned integer or pointer in the model: the integers of the
\* model checker end below 2^31 and a capacity times instructionSize has to
\* stay below that, so the 32-bit words of the program are modelled with 24
\* bits and wrap around in the same way
WordBits == 24

\* number of values of an unsigned integer or pointer
WordRange == 2 ^ WordBits

\* the store pointer of a buffer without store
NullStore == 0

\* result recorded for a call that does not return
NoReturn == -1

\* addresses malloc may return for an instruction store
StoreAddresses == { 4096 * k : k \in 1..MaxBlocks }

\* requiredCapacity arguments: small counts, the largest power of two of the
\* word (its product with instructionSize wraps around to 0), and one above it
RequiredCapacities ==
    (0..MaxRequired) \cup {WordRange \div 2, (WordRange \div 2) + 1}

\* bufferSize arguments of nwnnsscomp_allocate_buffer (0x40000)
BufferSizes == {262144}

\* instruction objects passed to nwnnsscomp_emit_instruction: the dwords at
\* +0x4, +0x8, +0x1c and +0x20; the dwords between +0xc and +0x18 are zero
Instructions ==
    [size : {2, 8}, word8 : {3}, field1c : 1..MaxRecord, field20 : {7}]

\* values the read of the dword at address 0x00429080 may yield
DataSizes == {0, WordRange - 1}

\* an address malloc never returned, or the block at it was freed
NoBlock == [live |-> FALSE, slots |-> <<>>]

EmptyHeap == [a \in StoreAddresses |-> NoBlock]

\* the records in the block a store pointer designates
SlotsOf(hp, store) == IF store \in DOMAIN hp THEN hp[store].slots ELSE <<>>

\* what malloc may return: NULL, or the address of a block that is not live
MallocResults(hp) == {NullStore} \cup {a \in StoreAddresses : ~hp[a].live}

\* the header nwnnsscomp_allocate_buffer leaves: pointer, count and capacity
\* cleared, bufferSize at +0xc, the bytes from +0x10 on zeroed
nwnnsscomp_allocate_buffer(bufferSize) ==
    [store |-> NullStore, count |-> 0, capacity |-> 0, size |-> bufferSize,
     flag18 |-> 0, field1c |-> 0, field20 |-> 0]

\* return currentCapacity < requiredCapacity
nwnnsscomp_buffer_needs_expansion(buf, requiredCapacity) ==
    buf.capacity < requiredCapacity

CapacitySufficient_Strict(requiredCapacity, currentCapacity) ==
    requiredCapacity < currentCapacity

\* if (requiredCapacity <= currentCapacity) return 1
CapacitySufficient(requiredCapacity, currentCapacity) ==
    requiredCapacity <= currentCapacity

RECURSIVE GrowCapacity(_, _)
\* newCapacity = 1; while (newCapacity < requiredCapacity) newCapacity <<= 1;
\* the shift drops the top bit; a capacity shifted out to 0 is never left again
GrowCapacity(newCapacity, requiredCapacity) ==
    IF newCapacity >= requiredCapacity THEN newCapacity
    ELSE IF newCapacity = 0 THEN NoReturn
    ELSE GrowCapacity((newCapacity * 2) % WordRange, requiredCapacity)

\* records that fit the block malloc(newCapacity * instructionSize) returns
AllocatedSlots(newCapacity) ==
    ((newCapacity * InstructionSize) % WordRange) \div InstructionSize

AllocationFailed_Never(newBuffer) == FALSE

\* if (newBuffer == NULL) return 0
AllocationFailed(newBuffer) == newBuffer = NullStore

\* memmove(newBuffer, oldBuffer, currentCount * instructionSize) into a fresh
\* block: the first currentCount records of the old store, then bytes that
\* were never written
MoveRecords(oldSlots, currentCount, slots) ==
    [i \in 1..slots |->
        IF i <= currentCount /\ i <= Len(oldSlots) THEN oldSlots[i] ELSE Indeterminate]

\* the memmove reads past the old block or writes past the new one
MoveOutOfBounds(oldSlots, currentCount, slots) ==
    currentCount > Len(oldSlots) \/ currentCount > slots

\* free(oldBuffer)
FreeBlock(hp, store) == [hp EXCEPT ![store] = NoBlock]

\* the outcome of one call: the header and the heap it leaves and the record
\* of the call
nwnnsscomp_expand_bytecode_buffer(buf, hp, requiredCapacity, newBuffer, faulted) ==
    LET oldBuffer == buf.store
        oldSlots == SlotsOf(hp, oldBuffer)
        newCapacity == GrowCapacity(1, requiredCapacity)
        slots == AllocatedSlots(newCapacity)
        call == [op |-> "expand", required |-> requiredCapacity, before |-> buf,
                 oldSlots |-> oldSlots, outcome |-> "returned", ret |-> 1,
                 mallocs |-> 0, allocated |-> NullStore, frees |-> 0]
    IN  IF CapacitySufficient(requiredCapacity, buf.capacity)
        THEN [buffer |-> buf, heap |-> hp, call |-> call]
        ELSE IF newCapacity = NoReturn
        THEN [buffer |-> buf, heap |-> hp,
              call |-> [call EXCEPT !.outcome = "spinning", !.ret = NoReturn]]
        ELSE IF AllocationFailed(newBuffer)
        THEN [buffer |-> buf, heap |-> hp,
              call |-> [call EXCEPT !.ret = 0, !.mallocs = 1]]
        ELSE IF MoveOutOfBounds(oldSlots, buf.count, slots) /\ faulted
        THEN [buffer |-> buf,
              heap |-> [hp EXCEPT ![newBuffer] =
                           [live |-> TRUE,
                            slots |-> [i \in 1..slots |-> Indeterminate]]],
              call |-> [call EXCEPT !.outcome = "fault", !.ret = NoReturn,
                                    !.mallocs = 1, !.allocated = newBuffer]]
        ELSE LET moved == [hp EXCEPT ![newBuffer] =
                              [live |-> TRUE,
                               slots |-> MoveRecords(oldSlots, buf.count, slots)]]
                 freed == IF oldBuffer # NullStore
                          THEN FreeBlock(moved, oldBuffer)
                          ELSE moved
             IN  [buffer |-> [buf EXCEPT !.store = newBuffer,
                                         !.capacity = newCapacity],
                  heap |-> freed,
                  call |-> [call EXCEPT !.mallocs = 1, !.allocated = newBuffer,
                                        !.frees = IF oldBuffer # NullStore
                                                  THEN 1 ELSE 0]]

\* count = (writePos - bufferStart) / instructionSize with writePos the dword
\* at +0x4 and bufferStart the dword at +0x0, stored in the dword at +0x8
nwnnsscomp_update_buffer_size(buf) ==
    [buf EXCEPT !.capacity = ((buf.count - buf.store) % WordRange) \div InstructionSize]

\* a dword of which memcpy overwrites the low bytes least significant first
PartialCopy(dest, src, bytes) ==
    IF bytes >= 4 THEN src
    ELSE IF bytes <= 0 THEN dest
    ELSE (dest - (dest % (256 ^ bytes))) + (src % (256 ^ bytes))

\* size = min(dataSize, sourceSize - offset) for offset 0
CopySize(dataSize, sourceSize) ==
    IF dataSize > sourceSize THEN sourceSize ELSE dataSize

\* nwnnsscomp_prepare_instruction sets the dword at +0x18 to 0xf and copies
\* CopySize bytes from instruction+4 to buffer+4 (nwnnsscomp_add_to_buffer);
\* nwnnsscomp_emit_instruction then copies the dwords at +0x1c and +0x20
nwnnsscomp_emit_instruction(buf, instruction, dataSize) ==
    LET size == CopySize(dataSize, instruction.size)
    IN  [store |-> buf.store,
         count |-> PartialCopy(buf.count, instruction.size, size),
         capacity |-> PartialCopy(buf.capacity, instruction.word8, size - 4),
         size |-> PartialCopy(buf.size, 0, size - 8),
         flag18 |-> PartialCopy(15, 0, size - 20),
         field1c |-> instruction.field1c,
         field20 |-> instruction.field20]

\* the instruction field of a log entry that is not an emission
NoInstruction == [size |-> 0, word8 |-> 0, field1c |-> 0, field20 |-> 0]

\* the record of a call that is not an expansion
CallOf(name, buf, hp) ==
    [op |-> name, required |-> 0, before |-> buf,
     oldSlots |-> SlotsOf(hp, buf.store), outcome |-> "returned", ret |-> 0,
     mallocs |-> 0, allocated |-> NullStore, frees |-> 0]

\* populated buffers: a store whose number of slots is a power of two and
\* of which the first count slots hold records
PopulatedBuffers ==
    { [store |-> a, capacity |-> c, recs |-> recs] :
        a \in {4096},
        c \in {2 ^ k : k \in 0..MaxCount},
        recs \in UNION { [1..n -> 1..MaxRecord] : n \in 0..MaxCount } }

\* the buffer as nwnnsscomp_allocate_buffer leaves it
BufferInit ==
    /\ buffer = nwnnsscomp_allocate_buffer(262144)
    /\ heap = EmptyHeap
    /\ lastCall = CallOf("allocate_buffer", nwnnsscomp_allocate_buffer(262144), EmptyHeap)
    /\ opLog = <<>>

\* the buffer is empty, or it holds records in a store of its capacity
BufferInputs ==
    \/ BufferInit
    \/ \E p \in PopulatedBuffers :
          /\ Len(p.recs) <= p.capacity
          /\ buffer = [nwnnsscomp_allocate_buffer(262144) EXCEPT
                          !.store = p.store, !.count = Len(p.recs),
                          !.capacity = p.capacity]
          /\ heap = [EmptyHeap EXCEPT ![p.store] =
                        [live |-> TRUE,
                         slots |-> [i \in 1..p.capacity |->
                                      IF i <= Len(p.recs) THEN p.recs[i]
                                      ELSE Indeterminate]]]
          /\ lastCall = CallOf("allocate_buffer", nwnnsscomp_allocate_buffer(262144), EmptyHeap)
          /\ opLog = <<>>

(* ------------------------------------------------------------------ *)
(* nwnnsscomp_finalize_main_script                                      *)
(* ------------------------------------------------------------------ *)

\* offsets of the flag bytes that are stored: 0x1e0 to 0x1ea
FlagSlots == 480..490

\* offset of the flag byte that depends on param2: 0x1e0
VersionFlagSlot == 480

\* offsets of the symbol-table segments that are reset: 0xf8, 0x104, 0x110, 0x1d0
SegmentOffsets == {248, 260, 272, 464}

\* cmp dword ptr [eax+0x1dc], 0x82
VersionThreshold == 130

\* values of param1, of param2 as a signed integer, and of the byte param3
Param1Values == {0, 1}

Param2Values == {-1, 0, 129, 130, 131}

FlagBytes == {0, 1, 2, 255}

\* the fields of a compiler object before nwnnsscomp_finalize_main_script ran:
\* values that were never written
UnfinalizedObject ==
    [field0 |-> Indeterminate,
     buffer28 |-> [nwnnsscomp_allocate_buffer(0) EXCEPT !.store = Indeterminate],
     buffer11c |-> [nwnnsscomp_allocate_buffer(0) EXCEPT !.store = Indeterminate],
     segments |-> [o \in SegmentOffsets |->
                      <<Indeterminate, Indeterminate, Indeterminate, Indeterminate>>],
     field1dc |-> Indeterminate,
     flags |-> [o \in FlagSlots |-> Indeterminate]]

\* symbolTable[0] = 0; symbolTable[1] = 0; symbolTable[2] = 0
nwnnsscomp_finalize_symbol_table(symbolTableSegment) ==
    [symbolTableSegment EXCEPT ![1] = 0, ![2] = 0, ![3] = 0]

FlagValue_AlwaysParam3(slot, param2, param3) == param3

\* the byte stored at a flag slot: param3, except that the slot at 0x1e0 gets
\* 1 when (int)param2 is not below 0x82
FlagValue(slot, param2, param3) ==
    IF slot = VersionFlagSlot /\ ~(param2 < VersionThreshold) THEN 1 ELSE param3

\* the two buffers are initialized with 0x40000, the four segments are reset,
\* param1 is stored at +0x0 and param2 at +0x1dc, and the flag bytes are stored
nwnnsscomp_finalize_main_script(object, param1, param2, param3) ==
    [field0 |-> param1,
     buffer28 |-> nwnnsscomp_allocate_buffer(262144),
     buffer11c |-> nwnnsscomp_allocate_buffer(262144),
     segments |-> [o \in SegmentOffsets |->
                      nwnnsscomp_finalize_symbol_table(object.segments[o])],
     field1dc |-> param2,
     flags |-> [o \in FlagSlots |-> FlagValue(o, param2, param3)]]

\* no operation was called directly
NoUnitCall == [op |-> "none"]

(* ------------------------------------------------------------------ *)
(* Batch driver: nwnnsscomp_process_files and compile_single_file       *)
(* ------------------------------------------------------------------ *)

\* dwFileAttributes == 0x80: the entry is a file without other attributes
FILE_ATTRIBUTE_NORMAL == 128

\* (fileData.attributes & 0x16): hidden 0x02, system 0x04, directory 0x10
AttributeMask == 22

\* the directory bit of the mask
DirectoryBit == 16

\* the value nwnnsscomp_enumerate_files returns when FindFirstFileA fails
INVALID_HANDLE_VALUE == -1

\* a handle FindFirstFileA returns
ValidHandle == 4

\* attributes the file system reports: a normal file, a file with the archive
\* bit, a directory, a hidden file
FileAttributes == {FILE_ATTRIBUTE_NORMAL, 32, DirectoryBit, 2}

\* an entry matching the pattern: its attributes and whether
\* nwnnsscomp_read_file_to_memory can read it; a directory cannot be read
Entries ==
    {e \in [attributes : FileAttributes, readable : BOOLEAN] :
        e.attributes = DirectoryBit => ~e.readable}

EntryLists == UNION { [1..n -> Entries] : n \in 0..MaxEntries }

\* fileData before the enumeration has filled it
NoFileData == [attributes |-> 0, entry |-> [attributes |-> 0, readable |-> FALSE]]

\* nothing was enumerated
NoEnumeration == [opened |-> FALSE, closes |-> 0, seen |-> <<>>, returned |-> -1]

RECURSIVE BitAnd(_, _)
\* a & b
BitAnd(a, b) ==
    IF a = 0 \/ b = 0 THEN 0
    ELSE (a % 2) * (b % 2) + 2 * BitAnd(a \div 2, b \div 2)

\* fileData->attributes = (findData.dwFileAttributes != 0x80) ? 0 : findData.dwFileAttributes
StoredAttributes(dwFileAttributes) ==
    IF dwFileAttributes # FILE_ATTRIBUTE_NORMAL THEN 0 ELSE dwFileAttributes

\* FindFirstFileA / FindNextFileA: the next entry fills fileData
FillFileData(entry) ==
    [attributes |-> StoredAttributes(entry.attributes), entry |-> entry]

\* if ((int)enumHandle < 1): the enumeration is taken as failed
EnumerationFailed(handle) == handle < 1

\* if ((fileData.attributes & 0x16) == 0)
IsRegularFile(data) == BitAnd(data.attributes, AttributeMask) = 0

\* the values nwnnsscomp_compile_core returns: 0, 1, 2 and, where no return
\* value was assigned, whatever the result variable holds
CompileCoreResults == {0, 1, 2} \cup UninitValues

\* the values a read of successFlag yields where it was not assigned
SuccessFlagValues == {0, 1}

\* g_scriptsFailed is incremented when the file cannot be opened and in the
\* else branch of the result tests
FailedIncrement_IncludeFails(opened, compilationResult) ==
    IF ~opened \/ compilationResult # 1 THEN 1 ELSE 0

FailedIncrement(opened, compilationResult) ==
    IF ~opened THEN 1
    ELSE IF compilationResult = 1 THEN 0
    ELSE IF compilationResult = 2 THEN 0
    ELSE 1

\* successFlag is assigned 1 in the branch of result 1 and nowhere else
SuccessFlag(compilationResult, indeterminate) ==
    IF compilationResult = 1 THEN 1 ELSE indeterminate

\* the status messages one call of compile_single_file prints, in order
PrintedStatuses(opened, compilationResult, successFlag) ==
    IF ~opened THEN <<"unable to open file">>
    ELSE (IF compilationResult = 1 THEN <<>>
          ELSE IF compilationResult = 2 THEN <<"include">>
          ELSE <<"failed">>)
         \o (IF successFlag = 0 THEN <<>> ELSE <<"passed">>)

\* one call of nwnnsscomp_compile_single_file: the counters, the messages
\* and the cleanup.  When compile_core was called, g_currentCompiler
\* designates its parser state and the first destroy call frees that object,
\* after which the call returns or the process is aborted; when the file
\* could not be opened the global is 0 and both destroy calls return at once.
nwnnsscomp_compile_single_file(processed, failed, entry, compilationResult, indeterminate, aborted) ==
    LET opened == entry.readable
        successFlag == SuccessFlag(compilationResult, indeterminate)
    IN  [g_scriptsProcessed |-> processed + 1,
         g_scriptsFailed |-> failed + FailedIncrement(opened, compilationResult),
         report |-> [entry |-> entry, opened |-> opened,
                     result |-> IF opened THEN compilationResult ELSE -1,
                     printed |-> PrintedStatuses(opened, compilationResult, successFlag),
                     failedBefore |-> failed,
                     failedAfter |-> failed + FailedIncrement(opened, compilationResult),
                     outcome |-> IF opened /\ aborted THEN "aborted" ELSE "returned"]]

(* ------------------------------------------------------------------ *)
(* Initial state: the driver has not started a file                     *)
(* ------------------------------------------------------------------ *)

CoreInit ==
    /\ pc = "idle"
    /\ isIncludeFile = FALSE
    /\ debugMode = FALSE
    /\ includeFlag = 0
    /\ symbolTable = {}
    /\ unitBody = <<>>
    /\ g_currentCompiler = NULL
    /\ compiler = NULL
    /\ errorCount = 0
    /\ alreadyProcessed = FALSE
    /\ passErrors = <<>>
    /\ callLog = <<>>
    /\ result = 0
    /\ retPath = "none"
    /\ writeResult = -1
    /\ errorReports = <<>>
    /\ findCalls = <<>>
    /\ serAllocs = 0
    /\ serFrees = 0
    /\ fopenCalls = 0
    /\ fwriteCalls = 0
    /\ bytecodeSize = -1
    /\ patchedOffsets = {}
    /\ ioError = FALSE
    /\ outFile = NoFile
    /\ sourceFrees = 0
    /\ status = "none"
    /\ serFields = NoRegionPointers
    /\ genAllocs = 0
    /\ genFrees = 0
    /\ includeVisits = <<>>
    /\ destroyLog = <<>>

\* no unit is being compiled and nothing was registered or finalized
OpInit ==
    /\ unitIncludes = <<>>
    /\ createFailed = <<>>
    /\ finalized = UnfinalizedObject
    /\ unitCall = NoUnitCall

\* nwnnsscomp_process_files has not been called
DriverIdle ==
    /\ drvPc = "none"
    /\ fileSystem = <<>>
    /\ enumHandle = 0
    /\ fileData = NoFileData
    /\ filesProcessed = 0
    /\ g_scriptsProcessed = 0
    /\ g_scriptsFailed = 0
    /\ fileReports = <<>>
    /\ enumLog = NoEnumeration

Init == CoreInit /\ BufferInit /\ OpInit /\ DriverIdle /\ includeRegistry = EmptyRegistry

\* expand_bytecode_buffer is called on an empty or a populated buffer
InitExpand ==
    CoreInit /\ BufferInputs /\ OpInit /\ DriverIdle /\ includeRegistry = EmptyRegistry

\* the registry of the object an operation is called on: nothing was
\* registered, and its entry pointer holds any value
InitCalls ==
    /\ CoreInit /\ BufferInit /\ OpInit /\ DriverIdle
    /\ includeRegistry \in [entry : RegistryEntries, keys : {{}}]

(* ------------------------------------------------------------------ *)
(* nwnnsscomp_compile_core, one action per stretch between its calls    *)
(* ------------------------------------------------------------------ *)

\* the driver calls compile_core for the next file: the parser state is set
\* up and registered as the current compiler
CompileCoreBegin ==
    /\ pc = "idle"
    /\ \E inc \in BOOLEAN, dbg \in BOOLEAN, flag \in {0, 1},
          table \in SymbolTables, body \in Bodies,
          includes \in IncludeLists :
          /\ unitIncludes' = includes
          /\ isIncludeFile' = inc
          /\ debugMode' = dbg
          /\ includeFlag' = flag
          /\ symbolTable' = table
          /\ unitBody' = body
    /\ g_currentCompiler' = "parserState"
    /\ pc' = "create1"
    /\ UNCHANGED <<lifeVars, bufVars, driverVars, includeRegistry, createFailed, finalized, unitCall,
                   writerVars, compiler, errorCount, alreadyProcessed, passErrors,
                   callLog, result, retPath, sourceFrees, status>>

\* malloc(52) and nwnnsscomp_create_compiler; on failure the source buffer is
\* freed and 0 is returned
CreateFirstCompiler ==
    /\ pc = "create1"
    /\ \E structOk \in BOOLEAN, objectOk \in BOOLEAN :
          LET created == nwnnsscomp_create_compiler(includeRegistry, g_currentCompiler,
                             SourceBufferStart, NullPath, debugMode, structOk /\ objectOk)
          IN
          /\ includeRegistry' = created.registry
          /\ g_currentCompiler' = created.current
          /\ IF ~created.instance.null
             THEN /\ compiler' = "compiler1"
                  /\ callLog' = Append(callLog, "create_compiler")
                  /\ pc' = "generate1"
                  /\ UNCHANGED <<result, retPath, sourceFrees>>
             ELSE /\ compiler' = NULL
                  /\ callLog' = IF structOk THEN Append(callLog, "create_compiler")
                                            ELSE callLog
                  /\ sourceFrees' = sourceFrees + 1
                  /\ result' = 0
                  /\ retPath' = "create_failed"
                  /\ pc' = "done"
          /\ createFailed' = IF created.instance.null
                             THEN Append(createFailed,
                                         [instance |-> "first", calls |-> Len(callLog')])
                             ELSE createFailed
    /\ UNCHANGED <<lifeVars, bufVars, driverVars, unitIncludes, finalized, unitCall,
                   unitVars, writerVars, includeFlag,
                   errorCount, alreadyProcessed, passErrors, status>>

\* first nwnnsscomp_generate_bytecode; the parser leaves its diagnostics count
GenerateFirstPass ==
    /\ pc = "generate1"
    /\ \E diagnostics \in 0..MaxErrors :
          /\ errorCount' = diagnostics
          /\ passErrors' = Append(passErrors, diagnostics)
    /\ callLog' = Append(callLog, "generate_bytecode")
    /\ genAllocs' = genAllocs + GenerateAllocations
    /\ \E registryEntry \in RegistryEntries :
          LET nextInclude ==
                  nwnnsscomp_get_next_include_file(unitIncludes, Len(includeVisits))
              registry == [includeRegistry EXCEPT !.entry = registryEntry]
          IN  /\ includeVisits' = ProcessInclude(includeVisits, nextInclude,
                                      g_currentCompiler, registry, FALSE, <<>>)
              /\ includeRegistry' =
                    IF nextInclude = NullPath THEN includeRegistry
                    ELSE RegistryAfterInclude(nextInclude, g_currentCompiler,
                                              registry, FALSE, <<>>)
    /\ pc' = "check1"
    /\ UNCHANGED <<serFields, genFrees, destroyLog, bufVars, driverVars,
                   unitIncludes, createFailed, finalized, unitCall,
                   unitVars, writerVars, includeFlag, g_currentCompiler, compiler,
                   alreadyProcessed, result, retPath, sourceFrees, status>>

\* if (errorCount > 0) { if (isIncludeFile) { ... return 2; } ... }
CheckFirstPass ==
    /\ pc = "check1"
    /\ LET branch == FirstPassBranch(errorCount, isIncludeFile, includeFlag)
       IN  /\ alreadyProcessed' =
                 IF errorCount > 0 /\ isIncludeFile
                 THEN nwnnsscomp_is_include_processed(includeFlag) # 0
                 ELSE alreadyProcessed
           /\ CASE branch = "return2" ->
                     /\ result' = 2
                     /\ retPath' = "include"
                     /\ pc' = "done"
                [] branch = "second" ->
                     /\ pc' = "create2"
                     /\ UNCHANGED <<result, retPath>>
                [] branch = "fallthrough" ->
                     /\ result' \in UninitValues
                     /\ retPath' = "fallthrough"
                     /\ pc' = "done"
    /\ UNCHANGED <<lifeVars, bufVars, driverVars, opVars,
                   unitVars, writerVars, includeFlag, g_currentCompiler, compiler,
                   errorCount, passErrors, callLog, sourceFrees, status>>

\* malloc(52) for the output compiler, nwnnsscomp_create_compiler (its result
\* is not tested) and nwnnsscomp_finalize_include
CreateSecondCompiler ==
    /\ pc = "create2"
    /\ \E structOk \in BOOLEAN, objectOk \in BOOLEAN :
          LET created == nwnnsscomp_create_compiler(includeRegistry, g_currentCompiler,
                             SourceBufferStart, NullPath, debugMode, structOk /\ objectOk)
          IN
          /\ includeRegistry' = created.registry
          /\ g_currentCompiler' = created.current
          /\ IF structOk
             THEN /\ compiler' = IF ~created.instance.null THEN "compiler2" ELSE NULL
                  /\ callLog' = callLog \o <<"create_compiler", "finalize_include">>
                  /\ pc' = "generate2"
                  /\ UNCHANGED <<result, retPath>>
             ELSE /\ result' \in UninitValues
                  /\ retPath' = "fallthrough"
                  /\ pc' = "done"
                  /\ UNCHANGED <<compiler, callLog>>
          /\ createFailed' = IF created.instance.null
                             THEN Append(createFailed,
                                         [instance |-> "second", calls |-> Len(callLog')])
                             ELSE createFailed
    /\ UNCHANGED <<lifeVars, bufVars, driverVars, unitIncludes, finalized, unitCall,
                   unitVars, writerVars, includeFlag,
                   errorCount, alreadyProcessed, passErrors, sourceFrees, status>>

\* second nwnnsscomp_generate_bytecode, then
\* nwnnsscomp_mark_include_processed(parserState, 1) and the error count
GenerateSecondPass ==
    /\ pc = "generate2"
    /\ \E diagnostics \in 0..MaxErrors :
          /\ errorCount' = diagnostics
          /\ passErrors' = Append(passErrors, diagnostics)
    /\ callLog' = callLog \o <<"generate_bytecode", "mark_include_processed">>
    /\ genAllocs' = genAllocs + GenerateAllocations
    /\ \E registryEntry \in RegistryEntries :
          LET nextInclude ==
                  nwnnsscomp_get_next_include_file(unitIncludes, Len(includeVisits))
              registry == [includeRegistry EXCEPT !.entry = registryEntry]
          IN  /\ includeVisits' = ProcessInclude(includeVisits, nextInclude,
                                      g_currentCompiler, registry, FALSE, <<>>)
              /\ includeRegistry' =
                    IF nextInclude = NullPath THEN includeRegistry
                    ELSE RegistryAfterInclude(nextInclude, g_currentCompiler,
                                              registry, FALSE, <<>>)
    /\ includeFlag' = 1
    /\ pc' = "check2"
    /\ UNCHANGED <<serFields, genFrees, destroyLog, bufVars, driverVars,
                   unitIncludes, createFailed, finalized, unitCall,
                   unitVars, writerVars, g_currentCompiler, compiler,
                   alreadyProcessed, result, retPath, sourceFrees, status>>

\* if (errorCount <= 0) { finalize; write } else return 0
CheckSecondPass ==
    /\ pc = "check2"
    /\ IF SecondPassBranch(errorCount) = "mainclean"
       THEN /\ pc' = "finalize"
            /\ UNCHANGED <<result, retPath>>
       ELSE /\ result' = 0
            /\ retPath' = "errors_persist"
            /\ pc' = "done"
    /\ UNCHANGED <<lifeVars, bufVars, driverVars, opVars,
                   unitVars, writerVars, includeFlag, g_currentCompiler, compiler,
                   errorCount, alreadyProcessed, passErrors, callLog, sourceFrees, status>>

\* nwnnsscomp_finalize_main_script(parserState, NULL, NULL, 0)
FinalizeMainScript ==
    /\ pc = "finalize"
    /\ callLog' = Append(callLog, "finalize_main_script")
    /\ finalized' = nwnnsscomp_finalize_main_script(finalized, 0, 0, 0)
    /\ pc' = "write"
    /\ UNCHANGED <<lifeVars, bufVars, driverVars,
                   unitIncludes, includeRegistry, createFailed, unitCall,
                   unitVars, writerVars, includeFlag, g_currentCompiler, compiler,
                   errorCount, alreadyProcessed, passErrors, result, retPath,
                   sourceFrees, status>>

\* nwnnsscomp_write_bytecode_to_file and the return of compile_core on its result
WriteBytecodeToFile ==
    /\ pc = "write"
    /\ findCalls' = EntryPointLookups(symbolTable)
    /\ LET check == EntryPointCheck(symbolTable)
           written == SerializeUnit(WriteHeader, unitBody)
           size == Len(written)
           region == StoreDword(RegionOf(written), SizePatchOffset, size)
       IN  IF check # "ok"
           THEN /\ errorReports' = Append(errorReports, check)
                /\ writeResult' = 0
                /\ UNCHANGED <<serAllocs, serFrees, fopenCalls, fwriteCalls,
                               bytecodeSize, patchedOffsets, ioError, outFile,
                               serFields>>
           ELSE /\ serAllocs' = serAllocs + 1
                /\ serFields' = StoreRegionPointers(serFields, "serializationRegion")
                /\ bytecodeSize' = size
                /\ patchedOffsets' = SizePatchOffset..(SizePatchOffset + 3)
                /\ fopenCalls' = fopenCalls + 1
                /\ serFrees' = serFrees + 1
                /\ UNCHANGED errorReports
                /\ \E opened \in BOOLEAN, count \in FwriteCounts(size) :
                      IF ~opened
                      THEN /\ writeResult' = 0
                           /\ ioError' = TRUE
                           /\ UNCHANGED <<fwriteCalls, outFile>>
                      ELSE /\ fwriteCalls' = fwriteCalls + 1
                           /\ outFile' = [exists |-> TRUE,
                                          bytes |-> SubSeq(region, 1, count)]
                           /\ ioError' = (count < size)
                           /\ writeResult' = 1
    /\ callLog' = Append(callLog, "write_bytecode_to_file")
    /\ result' = ResultOfWrite(writeResult')
    /\ retPath' = IF writeResult' = 0 THEN "write_failed" ELSE "written"
    /\ pc' = "done"
    /\ UNCHANGED <<genAllocs, genFrees, includeVisits, destroyLog, bufVars, driverVars, opVars,
                   unitVars, includeFlag, g_currentCompiler, compiler, errorCount,
                   alreadyProcessed, passErrors, sourceFrees, status>>

\* compile_core has returned: compile_single_file reports the file and
\* reaches cleanup_and_exit
ReturnToDriver ==
    /\ pc = "done"
    /\ status' = DriverStatus(result)
    /\ pc' = "destroy1"
    /\ UNCHANGED <<unitVars, writerVars, lifeVars, bufVars, driverVars, opVars, includeFlag,
                   g_currentCompiler, compiler, errorCount, alreadyProcessed,
                   passErrors, callLog, result, retPath, sourceFrees>>

\* the input file could not be read: compile_single_file reports the failure
\* and jumps to cleanup_and_exit without calling compile_core
OpenFailed ==
    /\ pc = "idle"
    /\ status' = "failed"
    /\ pc' = "destroy1"
    /\ UNCHANGED <<unitVars, writerVars, lifeVars, bufVars, driverVars, opVars, includeFlag,
                   g_currentCompiler, compiler, errorCount, alreadyProcessed,
                   passErrors, callLog, result, retPath, sourceFrees>>

\* nwnnsscomp_destroy_compiler, called twice in succession at cleanup_and_exit.
\* The object it works on is the one g_currentCompiler designates: the parser
\* state of the compile_core call that has returned.  No code stores into the
\* debugModeEnabled field of that object, so the value read from it is any
\* value; free() of that object is a free of memory malloc never returned,
\* after which the call either returns or the process is aborted.
DestroyCompiler ==
    /\ pc \in {"destroy1", "destroy2"}
    /\ IF g_currentCompiler = NULL
       THEN /\ destroyLog' = Append(destroyLog, DestroyedNothing)
            /\ pc' = AfterDestroy(pc)
            /\ UNCHANGED <<g_currentCompiler, sourceFrees>>
       ELSE \E debugModeEnabled \in BOOLEAN, aborted \in BOOLEAN :
               LET freesSource == DestroyFreesSource(SourceBufferStart, debugModeEnabled)
               IN  /\ sourceFrees' = sourceFrees + (IF freesSource THEN 1 ELSE 0)
                   /\ destroyLog' = Append(destroyLog,
                         [instance |-> g_currentCompiler,
                          sourceFreed |-> freesSource,
                          objectFreed |-> g_currentCompiler])
                   /\ IF aborted
                      THEN /\ pc' = "aborted"
                           /\ UNCHANGED g_currentCompiler
                      ELSE /\ pc' = AfterDestroy(pc)
                           /\ g_currentCompiler' = GlobalAfterDestroy(g_currentCompiler)
    /\ UNCHANGED <<unitVars, writerVars, bufVars, driverVars, opVars, includeFlag, compiler,
                   errorCount, alreadyProcessed, passErrors, callLog, result,
                   retPath, status, serFields, genAllocs, genFrees, includeVisits>>

\* compile_single_file has returned: the driver goes on to the next file,
\* whose output does not exist yet
NextFile ==
    /\ pc = "exit"
    /\ pc' = "idle"
    /\ isIncludeFile' = FALSE
    /\ debugMode' = FALSE
    /\ includeFlag' = 0
    /\ symbolTable' = {}
    /\ unitBody' = <<>>
    /\ compiler' = NULL
    /\ errorCount' = 0
    /\ alreadyProcessed' = FALSE
    /\ passErrors' = <<>>
    /\ callLog' = <<>>
    /\ result' = 0
    /\ retPath' = "none"
    /\ writeResult' = -1
    /\ errorReports' = <<>>
    /\ findCalls' = <<>>
    /\ serAllocs' = 0
    /\ serFrees' = 0
    /\ fopenCalls' = 0
    /\ fwriteCalls' = 0
    /\ bytecodeSize' = -1
    /\ patchedOffsets' = {}
    /\ ioError' = FALSE
    /\ outFile' = NoFile
    /\ sourceFrees' = 0
    /\ serFields' = NoRegionPointers
    /\ genAllocs' = 0
    /\ genFrees' = 0
    /\ includeVisits' = <<>>
    /\ destroyLog' = <<>>
    /\ unitIncludes' = <<>>
    /\ createFailed' = <<>>
    /\ finalized' = UnfinalizedObject
    /\ includeRegistry' = EmptyRegistry
    /\ UNCHANGED <<g_currentCompiler, status, bufVars, driverVars, unitCall>>

Next ==
    \/ CompileCoreBegin
    \/ CreateFirstCompiler
    \/ GenerateFirstPass
    \/ CheckFirstPass
    \/ CreateSecondCompiler
    \/ GenerateSecondPass
    \/ CheckSecondPass
    \/ FinalizeMainScript
    \/ WriteBytecodeToFile
    \/ ReturnToDriver
    \/ OpenFailed
    \/ DestroyCompiler
    \/ NextFile

Spec == Init /\ [][Next]_vars

(* ------------------------------------------------------------------ *)
(* Operations on the InstructionBuffer                                  *)
(* ------------------------------------------------------------------ *)

\* the last call returned and another call may be made
BufferRunning == lastCall.outcome = "returned" /\ Len(opLog) < MaxCalls

coreVars == <<pc, unitVars, writerVars, lifeVars, includeFlag, g_currentCompiler,
              compiler, errorCount, alreadyProcessed, passErrors, callLog, result,
              retPath, sourceFrees, status, opVars, driverVars>>

AllocateBuffer ==
    /\ BufferRunning
    /\ \E bufferSize \in BufferSizes :
          buffer' = nwnnsscomp_allocate_buffer(bufferSize)
    /\ lastCall' = CallOf("allocate_buffer", buffer, heap)
    /\ opLog' = Append(opLog, [op |-> "allocate_buffer", instruction |-> NoInstruction])
    /\ UNCHANGED <<heap, coreVars>>

EmitInstruction ==
    /\ BufferRunning
    /\ \E instruction \in Instructions, dataSize \in DataSizes :
          /\ buffer' = nwnnsscomp_emit_instruction(buffer, instruction, dataSize)
          /\ opLog' = Append(opLog, [op |-> "emit", instruction |-> instruction])
    /\ lastCall' = CallOf("emit", buffer, heap)
    /\ UNCHANGED <<heap, coreVars>>

ExpandBytecodeBuffer ==
    /\ BufferRunning
    /\ \E requiredCapacity \in RequiredCapacities,
          newBuffer \in MallocResults(heap), faulted \in BOOLEAN :
          LET r == nwnnsscomp_expand_bytecode_buffer(buffer, heap, requiredCapacity,
                                                     newBuffer, faulted)
          IN  /\ buffer' = r.buffer
              /\ heap' = r.heap
              /\ lastCall' = r.call
    /\ opLog' = Append(opLog, [op |-> "expand", instruction |-> NoInstruction])
    /\ UNCHANGED coreVars

UpdateBufferSize ==
    /\ BufferRunning
    /\ buffer' = nwnnsscomp_update_buffer_size(buffer)
    /\ lastCall' = CallOf("update_buffer_size", buffer, heap)
    /\ opLog' = Append(opLog, [op |-> "update_buffer_size", instruction |-> NoInstruction])
    /\ UNCHANGED <<heap, coreVars>>

NextBuf ==
    \/ AllocateBuffer
    \/ EmitInstruction
    \/ ExpandBytecodeBuffer
    \/ UpdateBufferSize

SpecBuf == Init /\ [][NextBuf]_vars

\* expand_bytecode_buffer called on an input buffer and on what it returns
ExpandInput ==
    /\ Len(opLog) < MaxExpands
    /\ ExpandBytecodeBuffer

NextExpand == ExpandInput

SpecExpand == InitExpand /\ [][NextExpand]_vars

(* ------------------------------------------------------------------ *)
(* Operations on a unit called with any arguments                       *)
(* ------------------------------------------------------------------ *)

\* what the operations called directly leave alone
callFrame == <<pc, unitVars, writerVars, includeFlag, compiler, errorCount,
               alreadyProcessed, passErrors, callLog, result, retPath,
               sourceFrees, status, serFields, genAllocs, genFrees, destroyLog,
               bufVars, unitIncludes, createFailed, driverVars>>

\* no operation was called yet
NotCalled == unitCall.op = "none"

\* nwnnsscomp_create_compiler(sourceBuffer, bufferSize, includePath, debugMode)
CreateCompilerCall ==
    /\ NotCalled
    /\ \E includePath \in {NullPath} \cup IncludePaths, debugModeArg \in BOOLEAN,
          allocated \in BOOLEAN :
          LET created == nwnnsscomp_create_compiler(includeRegistry, g_currentCompiler,
                             SourceBufferStart, includePath, debugModeArg, allocated)
          IN  /\ includeRegistry' = created.registry
              /\ g_currentCompiler' = created.current
              /\ unitCall' = [op |-> "create_compiler", includePath |-> includePath,
                              debugMode |-> debugModeArg, allocated |-> allocated,
                              registryBefore |-> includeRegistry,
                              currentBefore |-> g_currentCompiler,
                              instance |-> created.instance,
                              updates |-> created.updates]
    /\ UNCHANGED <<callFrame, includeVisits, finalized>>

\* nwnnsscomp_update_include_context(path)
UpdateIncludeContextCall ==
    /\ NotCalled
    /\ \E path \in IncludePaths :
          /\ includeRegistry' = nwnnsscomp_update_include_context(includeRegistry, path)
          /\ unitCall' = [op |-> "update_include_context", key |-> path,
                          registryBefore |-> includeRegistry,
                          reported |-> UpdateReport]
    /\ UNCHANGED <<callFrame, g_currentCompiler, includeVisits, finalized>>

\* the include block of nwnnsscomp_generate_bytecode for the include nextInclude
IncludeBlockCall ==
    /\ NotCalled
    /\ \E nextInclude \in IncludePaths, faulted \in BOOLEAN,
          garbage \in IndeterminateStrings :
          LET visit == IncludeVisit(nextInclude, g_currentCompiler, includeRegistry,
                                    faulted, garbage)
          IN  /\ includeVisits' = ProcessInclude(includeVisits, nextInclude,
                                      g_currentCompiler, includeRegistry, faulted, garbage)
              /\ includeRegistry' = RegistryAfterInclude(nextInclude, g_currentCompiler,
                                        includeRegistry, faulted, garbage)
              /\ unitCall' = [op |-> "include_block", nextInclude |-> nextInclude,
                              garbage |-> garbage,
                              emitted |-> IF visit.outcome = "returned"
                                          THEN IncludeEmits(visit) ELSE <<>>]
    /\ UNCHANGED <<callFrame, g_currentCompiler, finalized>>

\* the include block met again for the include it has just handled: the same
\* path on the same build, so the read of the missing extension that the
\* first pass survived is survived again with the same bytes
IncludeBlockAgain ==
    /\ unitCall.op = "include_block"
    /\ Len(includeVisits) < MaxIncludes
    /\ includeVisits[Len(includeVisits)].outcome = "returned"
    /\ LET nextInclude == unitCall.nextInclude
           visit == IncludeVisit(nextInclude, g_currentCompiler, includeRegistry,
                                 FALSE, unitCall.garbage)
       IN  /\ includeVisits' = ProcessInclude(includeVisits, nextInclude,
                                   g_currentCompiler, includeRegistry, FALSE,
                                   unitCall.garbage)
           /\ includeRegistry' = RegistryAfterInclude(nextInclude, g_currentCompiler,
                                     includeRegistry, FALSE, unitCall.garbage)
           /\ unitCall' = [unitCall EXCEPT
                              !.emitted = unitCall.emitted \o IncludeEmits(visit)]
    /\ UNCHANGED <<callFrame, g_currentCompiler, finalized>>

\* nwnnsscomp_finalize_main_script(compiler, param1, param2, param3)
FinalizeMainScriptCall ==
    /\ NotCalled
    /\ \E param1 \in Param1Values, param2 \in Param2Values, param3 \in FlagBytes :
          /\ finalized' = nwnnsscomp_finalize_main_script(finalized, param1, param2, param3)
          /\ unitCall' = [op |-> "finalize_main_script", param1 |-> param1,
                          param2 |-> param2, param3 |-> param3]
    /\ UNCHANGED <<callFrame, g_currentCompiler, includeVisits, includeRegistry>>

NextCalls ==
    \/ CreateCompilerCall
    \/ UpdateIncludeContextCall
    \/ IncludeBlockCall
    \/ IncludeBlockAgain
    \/ FinalizeMainScriptCall

SpecCalls == InitCalls /\ [][NextCalls]_vars

(* ------------------------------------------------------------------ *)
(* nwnnsscomp_process_files on the entries that match its pattern       *)
(* ------------------------------------------------------------------ *)

\* what process_files and the counters of compile_single_file leave alone
driverFrame == <<pc, unitVars, writerVars, lifeVars, includeFlag, compiler,
                 errorCount, alreadyProcessed, passErrors, callLog, result,
                 retPath, sourceFrees, status, bufVars, opVars>>

\* process_files is called with a pattern that some entries match
InitDriver ==
    /\ CoreInit /\ BufferInit /\ OpInit /\ includeRegistry = EmptyRegistry
    /\ drvPc = "start"
    /\ fileSystem \in EntryLists
    /\ enumHandle = 0
    /\ fileData = NoFileData
    /\ filesProcessed = 0
    /\ g_scriptsProcessed = 0
    /\ g_scriptsFailed = 0
    /\ fileReports = <<>>
    /\ enumLog = NoEnumeration

\* enumHandle = nwnnsscomp_enumerate_files(input_path, &fileData) and the
\* test of the handle; filesProcessed = 0 in both branches
EnumerateFiles ==
    /\ drvPc = "start"
    /\ filesProcessed' = 0
    /\ IF fileSystem = <<>>
       THEN /\ enumHandle' = INVALID_HANDLE_VALUE
            /\ UNCHANGED <<fileData, fileSystem>>
            /\ enumLog' = [enumLog EXCEPT !.opened = FALSE]
       ELSE /\ enumHandle' = ValidHandle
            /\ fileData' = FillFileData(Head(fileSystem))
            /\ fileSystem' = Tail(fileSystem)
            /\ enumLog' = [enumLog EXCEPT !.opened = TRUE]
    /\ drvPc' = IF EnumerationFailed(enumHandle') THEN "return" ELSE "entry"
    /\ UNCHANGED <<driverFrame, g_currentCompiler, g_scriptsProcessed,
                   g_scriptsFailed, fileReports>>

\* the body of the loop up to the next enumeration call: the attribute test
\* and, for a regular file, nwnnsscomp_compile_single_file and the count
ProcessEntry ==
    /\ drvPc = "entry"
    /\ IF IsRegularFile(fileData)
       THEN \E compilationResult \in CompileCoreResults,
               indeterminate \in SuccessFlagValues, aborted \in BOOLEAN :
               LET call == nwnnsscomp_compile_single_file(g_scriptsProcessed,
                               g_scriptsFailed, fileData.entry, compilationResult,
                               indeterminate, aborted)
               IN  /\ g_scriptsProcessed' = call.g_scriptsProcessed
                   /\ g_scriptsFailed' = call.g_scriptsFailed
                   /\ fileReports' = Append(fileReports, call.report)
                   /\ enumLog' = [enumLog EXCEPT !.seen =
                                     Append(@, [entry |-> fileData.entry,
                                                compiled |-> TRUE])]
                   /\ IF call.report.outcome = "aborted"
                      THEN /\ drvPc' = "aborted"
                           /\ g_currentCompiler' = "parserState"
                           /\ UNCHANGED filesProcessed
                      ELSE /\ drvPc' = "next"
                           /\ g_currentCompiler' = GlobalAfterDestroy(g_currentCompiler)
                           /\ filesProcessed' = filesProcessed + 1
       ELSE /\ enumLog' = [enumLog EXCEPT !.seen =
                              Append(@, [entry |-> fileData.entry,
                                         compiled |-> FALSE])]
            /\ drvPc' = "next"
            /\ UNCHANGED <<g_currentCompiler, g_scriptsProcessed, g_scriptsFailed,
                           fileReports, filesProcessed>>
    /\ UNCHANGED <<driverFrame, fileSystem, enumHandle, fileData>>

\* enumResult = nwnnsscomp_enumerate_next_file(enumHandle, &fileData) and
\* the test while (enumResult >= 0)
EnumerateNextFile ==
    /\ drvPc = "next"
    /\ IF fileSystem = <<>>
       THEN /\ drvPc' = "close"
            /\ UNCHANGED <<fileData, fileSystem>>
       ELSE /\ fileData' = FillFileData(Head(fileSystem))
            /\ fileSystem' = Tail(fileSystem)
            /\ drvPc' = "entry"
    /\ UNCHANGED <<driverFrame, g_currentCompiler, enumHandle, filesProcessed,
                   g_scriptsProcessed, g_scriptsFailed, fileReports, enumLog>>

\* nwnnsscomp_close_file_handle(enumHandle) after the loop
CloseFileHandle ==
    /\ drvPc = "close"
    /\ enumLog' = [enumLog EXCEPT !.closes = @ + 1]
    /\ drvPc' = "return"
    /\ UNCHANGED <<driverFrame, g_currentCompiler, fileSystem, enumHandle, fileData,
                   filesProcessed, g_scriptsProcessed, g_scriptsFailed, fileReports>>

\* return filesProcessed
ReturnFilesProcessed ==
    /\ drvPc = "return"
    /\ enumLog' = [enumLog EXCEPT !.returned = filesProcessed]
    /\ drvPc' = "returned"
    /\ UNCHANGED <<driverFrame, g_currentCompiler, fileSystem, enumHandle, fileData,
                   filesProcessed, g_scriptsProcessed, g_scriptsFailed, fileReports>>

NextDriver ==
    \/ EnumerateFiles
    \/ ProcessEntry
    \/ EnumerateNextFile
    \/ CloseFileHandle
    \/ ReturnFilesProcessed

SpecDriver == InitDriver /\ [][NextDriver]_vars


(* ------------------------------------------------------------------ *)
(* Properties                                                           *)
(* ------------------------------------------------------------------ *)

\* positions of compile_single_file after compile_core returned
CleanupSteps == {"destroy1", "destroy2", "exit", "aborted"}

Called(name) == Count(callLog, name) > 0

\* the log ends with finalize_main_script immediately followed by the serializer
EndsInMainClean ==
    /\ Len(callLog) >= 2
    /\ callLog[Len(callLog) - 1] = "finalize_main_script"
    /\ callLog[Len(callLog)] = "write_bytecode_to_file"
    /\ Count(callLog, "finalize_main_script") = 1
    /\ Count(callLog, "write_bytecode_to_file") = 1

FirstPassErrors == passErrors[1]

Returned == pc = "done"

HasFunction(name) == \E f \in symbolTable : f.name = name

HasFunctionReturning(name, type) ==
    \E f \in symbolTable : f.name = name /\ f.returnType = type

\* C1: whenever the first pass ends with an error count of 0, compile_core
\* calls finalize_main_script, then write_bytecode_to_file, and returns 1 if
\* the write succeeded and 0 if it failed.
C1_CleanFirstPassIsSerialized ==
    (Returned /\ passErrors # <<>> /\ FirstPassErrors = 0) =>
        /\ EndsInMainClean
        /\ writeResult \in {0, 1}
        /\ result = (IF writeResult = 1 THEN 1 ELSE 0)
        /\ retPath \in {"written", "write_failed"}

\* C2: every execution path of compile_core returns a defined result code
\* that is one of 0, 1 or 2.
C2_ResultCodeDefined ==
    Returned => (retPath # "fallthrough" /\ result \in {0, 1, 2})

SecondPassOutcome ==
    /\ Count(callLog, "create_compiler") = 2
    /\ Count(callLog, "generate_bytecode") = 2
    /\ Len(passErrors) = 2
    /\ passErrors[2] > 0 =>
          /\ result = 0
          /\ ~Called("finalize_main_script")
          /\ ~Called("write_bytecode_to_file")
    /\ passErrors[2] = 0 => EndsInMainClean

C6_FinalizeOnceBeforeWrite ==
    /\ Count(callLog, "finalize_main_script") <= 1
    /\ Count(callLog, "write_bytecode_to_file") <= 1
    /\ \A i \in 1..Len(callLog) :
          /\ callLog[i] = "write_bytecode_to_file" =>
                (i > 1 /\ callLog[i - 1] = "finalize_main_script")
          /\ callLog[i] = "finalize_main_script" =>
                /\ passErrors # <<>>
                /\ passErrors[Len(passErrors)] = 0
                /\ errorCount = 0
                /\ pc \in {"write", "done"} \cup CleanupSteps
                /\ i < Len(callLog) => callLog[i + 1] = "write_bytecode_to_file"
    /\ (Returned /\ Called("finalize_main_script")) => EndsInMainClean
    /\ (Returned /\ (result = 2 \/ retPath = "errors_persist")) =>
          ~Called("finalize_main_script")

C6_Witness ==
    /\ Returned /\ retPath = "written"
    /\ Count(callLog, "finalize_main_script") = 1
    /\ passErrors[Len(passErrors)] = 0

C8_NoArtifactWithoutEntryPoint ==
    (Returned /\ (\/ (~HasFunction("main") /\ ~HasFunction("StartingConditional"))
                  \/ (HasFunction("main") /\ ~HasFunctionReturning("main", TYPE_VOID)))) =>
        /\ ~outFile.exists
        /\ serAllocs = 0 /\ fopenCalls = 0 /\ fwriteCalls = 0
        /\ writeResult # -1 => (writeResult = 0 /\ Len(errorReports) = 1)
        /\ result # 1

PointersInto(fields, region) == {f \in DOMAIN fields : fields[f] = region}

PowersOfTwo == {2 ^ k : k \in 0..WordBits}

IsPowerOfTwo(n) == n \in PowersOfTwo

SmallestPowerOfTwoAtLeast(n) ==
    CHOOSE p \in PowersOfTwo :
        p >= n /\ \A q \in PowersOfTwo : q >= n => p <= q

\* index of the last initialization in the log, 0 if there is none
LastInit(log) ==
    IF \E i \in 1..Len(log) : log[i].op = "allocate_buffer"
    THEN CHOOSE i \in 1..Len(log) :
            /\ log[i].op = "allocate_buffer"
            /\ \A j \in (i + 1)..Len(log) : log[j].op # "allocate_buffer"
    ELSE 0

\* the operations made on the buffer since it was last initialized
SinceInit(log) == SubSeq(log, LastInit(log) + 1, Len(log))

\* the record that appending an instruction stores
RecordOf(instruction) == instruction.field1c

\* the last call took the growth path of expand_bytecode_buffer
GrowthCall ==
    lastCall.op = "expand" /\ lastCall.required > lastCall.before.capacity

C12_AppendGrowsByPowersOfTwo ==
    LET ops == SinceInit(opLog)
        n == Len(ops)
        slots == SlotsOf(heap, buffer.store)
    IN  (n > 0 /\ \A i \in 1..n : ops[i].op = "emit") =>
            /\ buffer.capacity = SmallestPowerOfTwoAtLeast(n)
            /\ buffer.count = n
            /\ Len(slots) >= n
            /\ \A i \in 1..n : slots[i] = RecordOf(ops[i].instruction)

\* C13: a call of expand_bytecode_buffer with requiredCapacity > capacity
\* whose allocation succeeds returns success, the new capacity is the
\* smallest power of two >= requiredCapacity, the used count is unchanged,
\* the first used-count records of the new store are those of the old store
\* in the same order, and the old store is freed if and only if there was one.
C13_GrowthInstallsPowerOfTwoStore ==
    (GrowthCall /\ lastCall.allocated # NullStore) =>
        LET old == lastCall.before
            slots == SlotsOf(heap, buffer.store)
        IN  /\ lastCall.outcome = "returned"
            /\ lastCall.ret = 1
            /\ buffer.capacity = SmallestPowerOfTwoAtLeast(lastCall.required)
            /\ buffer.count = old.count
            /\ buffer.store = lastCall.allocated
            /\ heap[buffer.store].live
            /\ \A i \in 1..old.count :
                  i <= Len(slots) /\ slots[i] = lastCall.oldSlots[i]
            /\ lastCall.mallocs = 1
            /\ lastCall.frees = 1 <=> old.store # NullStore
            /\ lastCall.frees = 0 <=> old.store = NullStore
            /\ old.store # NullStore =>
                  (old.store # buffer.store /\ ~heap[old.store].live)

\* C14: a call of expand_bytecode_buffer with requiredCapacity <= capacity
\* returns success and leaves the store pointer, the used count, the capacity
\* and the stored records as they were, without allocating and without
\* freeing; nwnnsscomp_buffer_needs_expansion answers no for the same call.
C14_SufficientCapacityIsNoOp ==
    (lastCall.op = "expand" /\ lastCall.required <= lastCall.before.capacity) =>
        /\ lastCall.outcome = "returned"
        /\ lastCall.ret = 1
        /\ buffer = lastCall.before
        /\ SlotsOf(heap, buffer.store) = lastCall.oldSlots
        /\ buffer.store # NullStore => heap[buffer.store].live
        /\ lastCall.mallocs = 0
        /\ lastCall.frees = 0
        /\ ~nwnnsscomp_buffer_needs_expansion(lastCall.before, lastCall.required)

C14_Witness ==
    /\ lastCall.op = "expand"
    /\ lastCall.required = lastCall.before.capacity
    /\ lastCall.required > 1
    /\ lastCall.before.count > 0
    /\ lastCall.ret = 1

\* C15: when the allocation inside expand_bytecode_buffer fails the call
\* returns 0 and the buffer is as before the call: the old store is neither
\* freed nor replaced and capacity and used count are unchanged.
C15_AllocationFailureLeavesBuffer ==
    (GrowthCall /\ lastCall.mallocs = 1 /\ lastCall.allocated = NullStore) =>
        /\ lastCall.outcome = "returned"
        /\ lastCall.ret = 0
        /\ buffer = lastCall.before
        /\ SlotsOf(heap, buffer.store) = lastCall.oldSlots
        /\ buffer.store # NullStore => heap[buffer.store].live
        /\ lastCall.frees = 0

C15_Witness ==
    /\ GrowthCall /\ lastCall.mallocs = 1 /\ lastCall.allocated = NullStore
    /\ lastCall.ret = 0
    /\ lastCall.before.store # NullStore
    /\ lastCall.before.count > 0

\* C16: after any interleaving of allocate_buffer, expand_bytecode_buffer and
\* update_buffer_size that ends with the finalization, the capacity field is
\* a power of two and is >= the used count.
C16_CapacityPowerOfTwo ==
    (/\ lastCall.op = "update_buffer_size"
     /\ \A i \in 1..Len(opLog) : opLog[i].op # "emit") =>
        /\ IsPowerOfTwo(buffer.capacity)
        /\ buffer.capacity >= buffer.count

\* C17: when the compilation of a unit has concluded, every instruction
\* structure and bytecode store that generate_bytecode allocated for it,
\* in one pass or in two, has been freed exactly once.
C17_GeneratedBlocksFreedOnce ==
    pc = "exit" => genFrees = genAllocs

\* C18: when a compiler instance was created, the destroy calls of the
\* cleanup free the source buffer if and only if debugMode was true at the
\* creation, and at most once; without debug mode they never free it.
C18_DestroyFreesSourceIffDebug ==
    LET freeing == {i \in 1..Len(destroyLog) : destroyLog[i].sourceFreed}
    IN  (pc = "exit" /\ retPath \notin {"none", "create_failed"}) =>
            /\ freeing # {} <=> debugMode
            /\ Cardinality(freeing) <= 1

\* C19: of the two successive calls of destroy_compiler at the cleanup the
\* first leaves the current-instance global empty and the second frees
\* nothing and changes no state.
C19_DestroyTwiceIdempotent ==
    [][/\ pc = "destroy1" => (pc' = "destroy2" /\ g_currentCompiler' = NULL)
       /\ pc = "destroy2" =>
             /\ pc' = "exit"
             /\ destroyLog' = Append(destroyLog, DestroyedNothing)
             /\ UNCHANGED <<unitVars, writerVars, bufVars, includeFlag,
                            g_currentCompiler, compiler, errorCount,
                            alreadyProcessed, passErrors, callLog, result,
                            retPath, sourceFrees, status, serFields, genAllocs,
                            genFrees, includeVisits>>]_vars

\* C20: while a discovered include is compiled the current instance is a new
\* one, not the enclosing one, and when the include has been processed the
\* current-instance global designates the enclosing instance again.
C20_NestedIncludePushPop ==
    \A i \in 1..Len(includeVisits) :
        /\ includeVisits[i].during # includeVisits[i].before
        /\ includeVisits[i].after = includeVisits[i].before

(* ------------------------------------------------------------------ *)
(* Properties of includes, instance creation and finalization           *)
(* ------------------------------------------------------------------ *)

\* the file name of a path without its directory components and without its
\* extension
ExpectedKey(path) ==
    LET separators == {i \in 1..Len(path) : path[i] \in PathSeparators}
        first == IF separators = {} THEN 1
                 ELSE 1 + (CHOOSE i \in separators : \A j \in separators : j <= i)
        name == SubSeq(path, first, Len(path))
        dots == {i \in 1..Len(name) : name[i] = "."}
    IN  IF dots = {} THEN name
        ELSE SubSeq(name, 1, (CHOOSE i \in dots : \A j \in dots : j <= i) - 1)

\* the calls that make up the compilation of a unit
UnitWork == {"generate_bytecode", "finalize_main_script", "write_bytecode_to_file"}

\* C21: nwnnsscomp_create_compiler registers includePath in the Include
\* Registry before it returns if and only if includePath is non-null, does not
\* change the current-instance global, and on allocation failure returns NULL
\* and leaves the registry as it was.
C21_CreateRegistersIncludePath ==
    unitCall.op = "create_compiler" =>
        /\ g_currentCompiler = unitCall.currentBefore
        /\ (unitCall.allocated /\ unitCall.includePath # NullPath) =>
              \E key \in includeRegistry.keys :
                  key \in {unitCall.includePath, ExpectedKey(unitCall.includePath)}
        /\ (unitCall.allocated /\ unitCall.includePath = NullPath) =>
              includeRegistry = unitCall.registryBefore
        /\ ~unitCall.allocated =>
              (unitCall.instance.null /\ includeRegistry = unitCall.registryBefore)

\* C22: nwnnsscomp_update_include_context inserts an absent key as processed
\* and reports New, reports AlreadyProcessed for a present key without
\* changing the registry, and after the call the key is present.
C22_RegisterOrTouch ==
    unitCall.op = "update_include_context" =>
        LET before == unitCall.registryBefore
        IN  /\ unitCall.key \in includeRegistry.keys
            /\ unitCall.key \notin before.keys =>
                  /\ unitCall.reported = "New"
                  /\ includeRegistry.keys = before.keys \cup {unitCall.key}
            /\ unitCall.key \in before.keys =>
                  /\ unitCall.reported = "AlreadyProcessed"
                  /\ includeRegistry = before

\* C23: across a compilation run an include key is activated at most once:
\* an include whose key the registry already holds is skipped, and of the
\* encounters of one include only the first goes on to the stage that
\* compiles it.
C23_IncludeActivatedOnce ==
    \A j \in 1..Len(includeVisits) :
        /\ ExpectedKey(includeVisits[j].path) \in includeVisits[j].registryBefore.keys
              => includeVisits[j].skipped
        /\ \A i \in 1..(j - 1) :
              ExpectedKey(includeVisits[i].path) = ExpectedKey(includeVisits[j].path)
                  => includeVisits[j].skipped

C25_IncludeKeyDerivation ==
    unitCall.op = "include_block" =>
        \A i \in 1..Len(includeVisits) :
            /\ includeVisits[i].outcome = "returned"
            /\ includeVisits[i].derived = ExpectedKey(includeVisits[i].path)

\* C26: the key is lower-cased exactly when it is not present in the Include
\* Registry, whatever other keys the registry holds.
C26_LowercaseIffUnregistered ==
    unitCall.op = "include_block" =>
        \A i \in 1..Len(includeVisits) :
            includeVisits[i].outcome = "returned" =>
                (includeVisits[i].lowercased <=>
                    ExpectedKey(includeVisits[i].path)
                        \notin includeVisits[i].registryBefore.keys)

\* C27: when nwnnsscomp_generate_bytecode has returned, every include
\* directive of the unit has been normalized and passed through the registry.
C27_EveryIncludeHandled ==
    pc \in {"check1", "check2"} => Len(includeVisits) = Len(unitIncludes)

\* C28: when the creation of a compiler instance fails, the first or the
\* second, compile_core returns 0 and neither generates bytecode nor finalizes
\* nor serializes after the failure.
C28_CreateFailureFatalToUnit ==
    (Returned /\ createFailed # <<>>) =>
        /\ result = 0
        /\ \A f \in 1..Len(createFailed) :
              \A i \in (createFailed[f].calls + 1)..Len(callLog) :
                  callLog[i] \notin UnitWork

\* the three leading fields of every reset symbol-table segment are 0
SegmentsReset ==
    \A o \in SegmentOffsets :
        finalized.segments[o][1] = 0 /\ finalized.segments[o][2] = 0
            /\ finalized.segments[o][3] = 0

\* C29 as claimed: after nwnnsscomp_finalize_main_script every flag slot from
\* 0x1e0 to 0x1ea holds param3, whatever the other parameters are, and the
\* three leading fields of every reset segment are 0.
C29_EveryFlagIsParam3 ==
    unitCall.op = "finalize_main_script" =>
        /\ \A slot \in FlagSlots : finalized.flags[slot] = unitCall.param3
        /\ SegmentsReset

\* C29 as amended: the flag slots from 0x1e1 to 0x1ea hold param3; the slot
\* at 0x1e0 holds param3 if param2, read as a signed integer, is below 0x82,
\* and 1 otherwise; the three leading fields of every reset segment are 0.
C29_FlagsStamped ==
    unitCall.op = "finalize_main_script" =>
        /\ \A slot \in FlagSlots \ {VersionFlagSlot} :
              finalized.flags[slot] = unitCall.param3
        /\ unitCall.param2 < VersionThreshold =>
              finalized.flags[VersionFlagSlot] = unitCall.param3
        /\ unitCall.param2 >= VersionThreshold =>
              finalized.flags[VersionFlagSlot] = 1
        /\ SegmentsReset

C29_Witness ==
    /\ unitCall.op = "finalize_main_script"
    /\ unitCall.param2 >= VersionThreshold
    /\ unitCall.param3 = 255
    /\ finalized.flags[VersionFlagSlot] = 1
    /\ finalized.flags[490] = 255
    /\ finalized.segments[464] = <<0, 0, 0, Indeterminate>>

\* C30: in an execution of compile_single_file, compile_core followed by the
\* two destroy calls, the source buffer is freed at most once.
C30_SourceFreedAtMostOnce == sourceFrees <= 1

(* ------------------------------------------------------------------ *)
(* Properties of the driver: instances, counters, reports, enumeration  *)
(* ------------------------------------------------------------------ *)

\* the instances nwnnsscomp_create_compiler has allocated in this run of
\* compile_core
CreatedInstances ==
    {c \in {"compiler1"} :
        /\ Called("create_compiler")
        /\ \A f \in 1..Len(createFailed) : createFailed[f].instance # "first"}
    \cup
    {c \in {"compiler2"} :
        /\ Called("finalize_include")
        /\ \A f \in 1..Len(createFailed) : createFailed[f].instance # "second"}

\* the objects the destroy calls of the cleanup have freed
DestroyedObjects ==
    {destroyLog[i].objectFreed : i \in 1..Len(destroyLog)} \ {NULL}

\* C31: when compile_single_file returns, the objects its destroy calls have
\* freed are instances nwnnsscomp_create_compiler allocated during the call,
\* and every instance created during the call has been freed by a destroy.
C31_CreatedInstancesDestroyed ==
    pc = "exit" =>
        /\ DestroyedObjects \subseteq CreatedInstances
        /\ CreatedInstances \subseteq DestroyedObjects

\* the calls of compile_single_file that count as failed: the input could not
\* be opened, or compile_core returned neither 1 nor 2
FailedCalls ==
    {i \in 1..Len(fileReports) :
        ~fileReports[i].opened \/ fileReports[i].result \notin {1, 2}}

\* the messages a call printed
Printed(report) == {report.printed[k] : k \in 1..Len(report.printed)}

C33_OneStatusPerFile ==
    \A i \in 1..Len(fileReports) :
        LET report == fileReports[i]
        IN  /\ Len(report.printed) = 1
            /\ "passed" \in Printed(report) => (report.opened /\ report.result = 1)
            /\ "include" \in Printed(report) => (report.opened /\ report.result = 2)
            /\ "failed" \in Printed(report) => (report.opened /\ report.result = 0)
            /\ "unable to open file" \in Printed(report) => ~report.opened

\* C34: when compile_single_file has returned, after an open failure or
\* after any result of compile_core, g_currentCompiler is 0, so that the next
\* file of a batch does not start with the instance of the previous file.
C34_CurrentInstanceEmptyAfterFile ==
    pc \in {"exit", "idle"} => g_currentCompiler = NULL

C34_Witness ==
    /\ pc = "exit"
    /\ Len(destroyLog) = 2
    /\ destroyLog[1].instance = "parserState"
    /\ destroyLog[2] = DestroyedNothing
    /\ result = 2
    /\ g_currentCompiler = NULL

\* C35: process_files passes an enumerated entry to compile_single_file if
\* and only if none of the bits 0x16 is set in the attributes the file system
\* reports for it; a directory is never compiled.
C35_OnlyRegularFilesCompiled ==
    \A i \in 1..Len(enumLog.seen) :
        enumLog.seen[i].compiled
            <=> BitAnd(enumLog.seen[i].entry.attributes, AttributeMask) = 0

\* C36: process_files ends by returning when the enumeration is exhausted;
\* it has then closed the enumeration handle once if the enumeration was
\* opened and not at all otherwise, and the value it returns is the number
\* of calls of compile_single_file it made.
C36_EnumerationClosedAndCounted ==
    drvPc \in {"returned", "aborted"} =>
        /\ drvPc = "returned"
        /\ fileSystem = <<>>
        /\ enumLog.closes = (IF enumLog.opened THEN 1 ELSE 0)
        /\ enumLog.returned = Len(fileReports)

\* C37: the capacity-doubling loop of expand_bytecode_buffer ends for every
\* requiredCapacity of the word, and the number of bytes asked of malloc,
\* newCapacity * instructionSize reduced to the word, is not smaller than the
\* count * instructionSize bytes moved into the new store.
C37_GrowthTerminatesAndCoversCount ==
    lastCall.op = "expand" =>
        /\ lastCall.outcome # "spinning"
        /\ lastCall.mallocs = 1 =>
              (GrowCapacity(1, lastCall.required) * InstructionSize) % WordRange
                  >= lastCall.before.count * InstructionSize

====
